---- MODULE Spec2Model ----
(***************************************************************************)
(* Model of the Hawck input daemon (src/src/KBDDaemon.cpp): the            *)
(* passthrough registry (key_sources / passthrough_keys), the two          *)
(* filesystem-watcher callbacks and the event loop of KBDDaemon::run,      *)
(* with the synthetic device (UDevice), the keyboards (Keyboard) and the   *)
(* peer channel (kbd_com) it drives.                                       *)
(***************************************************************************)
EXTENDS Integers, Sequences, FiniteSets, TLC

(***************************************************************************)
(* Bounds of the model.                                                    *)
(***************************************************************************)
\* most reply events the peer sends before done=true in one exchange
MaxReplies == 2
\* the permission poll's limit in microseconds, scaled down from
\* FSW_MAX_WAIT_PERMISSIONS_US (5 * 1000000) so that the limit is reached
MaxWaitUs == 200
\* the poll's increment in microseconds
wait_inc_us == 100

(***************************************************************************)
(* Values.                                                                 *)
(***************************************************************************)
Kbds == {"kbd1", "kbd2"}
\* the order addDevice() stored the keyboards in
KbdOrder == <<"kbd1", "kbd2">>
\* key codes carried by events
Codes == {30, 31}
NoEvent == [type |-> "none", code |-> 0, value |-> 0]
KeyEvent(c, v) == [type |-> "EV_KEY", code |-> c, value |-> v]
SynEvent == [type |-> "EV_SYN", code |-> 0, value |-> 0]
\* events a keyboard delivers
InputEvents == {KeyEvent(c, v) : c \in Codes, v \in {0, 1}}
\* events the macro daemon replies with
ReplyEvents == {KeyEvent(31, 1), KeyEvent(30, 0), SynEvent}

Range(s) == {s[i] : i \in 1..Len(s)}

(***************************************************************************)
(* Passthrough files.  A file is the list of the cells of its key_code     *)
(* column, each cell a string of characters; "CSVError" is a file the CSV  *)
(* reader rejects.                                                         *)
(***************************************************************************)
\* canonical paths of the keys directory
Paths == {"a.csv", "b.csv"}
\* paths as events and callers give them
RelPaths == {"a.csv", "b.csv", "./a.csv"}
Digits == <<"0", "1", "2", "3", "4", "5", "6", "7", "8", "9">>
IsDigit(ch) == \E d \in 1..10 : Digits[d] = ch
DigitVal(ch) == (CHOOSE d \in 1..10 : Digits[d] = ch) - 1
\* std::stoi: skips leading blanks, takes an optional sign, then the longest
\* run of digits; throws std::invalid_argument when there is no digit.
RECURSIVE SkipBlanks(_)
SkipBlanks(s) ==
    IF s # <<>> /\ Head(s) = " " THEN SkipBlanks(Tail(s)) ELSE s

RECURSIVE DigitsValue(_, _)
DigitsValue(s, acc) ==
    IF s # <<>> /\ IsDigit(Head(s))
    THEN DigitsValue(Tail(s), acc * 10 + DigitVal(Head(s)))
    ELSE acc

Unsigned(cell) ==
    LET s == SkipBlanks(cell)
    IN  IF s # <<>> /\ Head(s) \in {"-", "+"} THEN Tail(s) ELSE s

StoiThrows(cell) == Unsigned(cell) = <<>> \/ ~IsDigit(Head(Unsigned(cell)))

stoi(cell) ==
    LET s == SkipBlanks(cell)
    IN  IF s # <<>> /\ Head(s) = "-"
        THEN 0 - DigitsValue(Unsigned(cell), 0)
        ELSE DigitsValue(Unsigned(cell), 0)

\* the key_code columns of the files the model reads
CellLists ==
    { <<<<"3", "0">>>>,
      <<<<"3", "0">>, <<"3", "1">>>>,
      <<<<"x">>, <<" ", "3", "1">>>>,
      <<<<"-", "3", "0">>, <<"3", "1", "x">>, <<"3", "1">>>>,
      <<<<"+", "3", "0">>, <<"3", "2">>>>,
      <<>> }
\* a file the CSV reader rejects (CSV::CSVError)
CSVError == [ok |-> FALSE, cells |-> <<>>]
CSVFile(cells) == [ok |-> TRUE, cells |-> cells]
FileContents == {CSVFile(c) : c \in CellLists} \cup {CSVError}

\* st_mode values of passthrough files: a regular file with mode 0644, 0666, 0600
S_IFREG == 8 * 8 * 8 * 8 * 8
Mode0644 == 6 * 64 + 4 * 8 + 4
FileModes == {S_IFREG + Mode0644, S_IFREG + 6 * 64 + 6 * 8 + 6, S_IFREG + 6 * 64}
PermMask == 7 * 64 + 7 * 8 + 7
DaemonUid == "hawck-input"
Uids == {DaemonUid, "user"}
Masks == {{"IN_CREATE"}, {"IN_MODIFY"}, {"IN_DELETE_SELF"},
          {"IN_DELETE_SELF", "IN_MODIFY"}, {"IN_ATTRIB"}}

VARIABLES
    \* ---- passthrough registry
    key_sources,        \* path -> list of codes loaded from that file
    passthrough_keys,   \* the merged set
    \* ---- mutexes: name -> holder ("none" when free)
    mtx,
    \* ---- passthrough watcher thread (keys_fsw callback)
    w_pc, w_ev,
    w_last,             \* what the last callback did (observation only)
    \* ---- keyboards
    kstate,             \* Keyboard::state of every keyboard
    available_kbds,     \* the active list
    pulled_kbds,        \* the pending-replug list
    \* ---- hotplug watcher thread (input_fsw callback)
    h_pc, h_path, h_it, h_wait, h_st,
    \* ---- event loop
    l_pc, kbds, kbd, action, orig_ev, is_passthrough, count,
    \* ---- synthetic device
    evbuf, held_keys,
    \* ---- what the current loop iteration did (observation only)
    in_ev, q_keys, written, flushes, sent, replies, outcome,
    unlock_failed, relock_failed

regVars == <<key_sources, passthrough_keys>>
watcherVars == <<w_pc, w_ev, w_last>>
kbdVars == <<kstate, available_kbds, pulled_kbds>>
hotplugVars == <<h_pc, h_path, h_it, h_wait, h_st>>
loopVars == <<l_pc, kbds, kbd, action, orig_ev, is_passthrough, count>>
udevVars == <<evbuf, held_keys>>
obsVars == <<in_ev, q_keys, written, flushes, sent, replies, outcome,
             unlock_failed, relock_failed>>
vars == <<key_sources, passthrough_keys, mtx, w_pc, w_ev, w_last, kstate,
          available_kbds, pulled_kbds, h_pc, h_path, h_it, h_wait, h_st,
          l_pc, kbds, kbd, action, orig_ev, is_passthrough, count,
          evbuf, held_keys, in_ev, q_keys, written, flushes, sent, replies,
          outcome, unlock_failed, relock_failed>>

(***************************************************************************)
(* Passthrough registry.                                                   *)
(***************************************************************************)
\* the union of the code lists of all entries of a key_sources map
SourcesUnion(ks) == UNION {Range(ks[p]) : p \in DOMAIN ks}

Registry(ks, pk) == [ks |-> ks, pk |-> pk]

\* realpath(): the canonical path of a path that resolves
RealPath(rel) ==
    IF rel = "./a.csv" THEN "a.csv" ELSE rel

\* faulty variant: the codes of the removed source are erased and the
\* remaining sources are not re-added
UnloadPassthrough_NoReadd(ks, pk, path) ==
    IF path \in DOMAIN ks
    THEN Registry([p \in DOMAIN ks \ {path} |-> ks[p]], pk \ Range(ks[path]))
    ELSE Registry(ks, pk)

\* faulty variant: the path is resolved with realpath() before the lookup
UnloadPassthrough_Canon(ks, pk, path) ==
    LET rpath == RealPath(path)
    IN  IF rpath \in DOMAIN ks
        THEN LET erased == pk \ Range(ks[rpath])
                 rest == [p \in DOMAIN ks \ {rpath} |-> ks[p]]
             IN  Registry(rest, erased \cup SourcesUnion(rest))
        ELSE Registry(ks, pk)

\* KBDDaemon::unloadPassthrough
UnloadPassthrough(ks, pk, path) ==
    IF path \in DOMAIN ks
    THEN LET erased == pk \ Range(ks[path])
             rest == [p \in DOMAIN ks \ {path} |-> ks[p]]
         IN  Registry(rest, erased \cup SourcesUnion(rest))
    ELSE Registry(ks, pk)

\* the loop over the key_code cells: the codes pushed to cells_i, in order
RECURSIVE CellCodes(_)
CellCodes(cells) ==
    IF cells = <<>> THEN <<>>
    ELSE IF StoiThrows(Head(cells))
         THEN CellCodes(Tail(cells))
         ELSE LET i == stoi(Head(cells))
              IN  IF i >= 0
                  THEN <<i>> \o CellCodes(Tail(cells))
                  ELSE CellCodes(Tail(cells))

\* faulty variant: the map entry of the path is made before the CSV is read,
\* so a file that cannot be parsed leaves an empty source behind
InstallPassthrough_EmptyEntry(ks, pk, path, content) ==
    LET cells_i == IF content.ok THEN CellCodes(content.cells) ELSE <<>>
    IN  Registry([p \in DOMAIN ks \cup {path} |->
                     IF p = path THEN cells_i ELSE ks[p]],
                 pk \cup Range(cells_i))

\* KBDDaemon::loadPassthrough(std::string), after realpath() and
\* unloadPassthrough(): the CSV is read and its codes installed; a CSVError
\* leaves the registry as the unload left it.
InstallPassthrough(ks, pk, path, content) ==
    IF ~content.ok
    THEN Registry(ks, pk)
    ELSE LET cells_i == CellCodes(content.cells)
         IN  Registry([p \in DOMAIN ks \cup {path} |->
                          IF p = path THEN cells_i ELSE ks[p]],
                      pk \cup Range(cells_i))

\* faulty variant: the source of the path is not unloaded before the install
LoadPassthrough_NoUnload(ks, pk, rel_path, resolved, content) ==
    IF ~resolved
    THEN Registry(ks, pk)
    ELSE InstallPassthrough(ks, pk, RealPath(rel_path), content)

\* faulty variant: no unload, and the codes read are pushed onto the vector
\* the path already has
LoadPassthrough_Accumulate(ks, pk, rel_path, resolved, content) ==
    IF ~resolved \/ ~content.ok
    THEN Registry(ks, pk)
    ELSE LET path == RealPath(rel_path)
             cells_i == CellCodes(content.cells)
         IN  Registry([p \in DOMAIN ks \cup {path} |->
                          IF p = path
                          THEN (IF path \in DOMAIN ks THEN ks[path] ELSE <<>>)
                                  \o cells_i
                          ELSE ks[p]],
                      pk \cup Range(cells_i))

\* KBDDaemon::loadPassthrough(std::string) as a whole; resolved = FALSE is
\* realpath() returning nullptr (SystemError, caught and logged).
LoadPassthrough(ks, pk, rel_path, resolved, content) ==
    IF ~resolved
    THEN Registry(ks, pk)
    ELSE LET path == RealPath(rel_path)
             u == UnloadPassthrough(ks, pk, path)
         IN  InstallPassthrough(u.ks, u.pk, path, content)

\* the permission test of KBDDaemon::loadPassthrough(FSEvent*)
PermOk(st_mode, st_uid) ==
    (st_mode % (PermMask + 1)) = Mode0644 /\ st_uid = DaemonUid

\* KBDDaemon::loadPassthrough(FSEvent*)
LoadPassthroughEv(ks, pk, ev, resolved, content) ==
    IF PermOk(ev.st_mode, ev.st_uid)
    THEN LoadPassthrough(ks, pk, ev.path, resolved, content)
    ELSE Registry(ks, pk)

(***************************************************************************)
(* Synthetic device (UDevice): emit() appends to the buffer, flush()       *)
(* writes the buffer in order and updates the held-keys tracker, upAll()   *)
(* appends a release and a report for every held key.  Buffer entries      *)
(* carry the call that produced them ("by"), for observation.              *)
(***************************************************************************)
Entry(e, by) == [ev |-> e, by |-> by]

\* UDevice::emit
Emit(buf, e, by) == Append(buf, Entry(e, by))

\* the held-keys tracker after one written event
HeldAfter(held, e) ==
    IF e.type = "EV_KEY" /\ e.value = 1 THEN held \cup {e.code}
    ELSE IF e.type = "EV_KEY" /\ e.value = 0 THEN held \ {e.code}
    ELSE held

RECURSIVE HeldAfterAll(_, _)
HeldAfterAll(held, buf) ==
    IF buf = <<>> THEN held
    ELSE HeldAfterAll(HeldAfter(held, Head(buf).ev), Tail(buf))

\* the releases upAll() appends, in ascending code order
RECURSIVE Releases(_)
Releases(held) ==
    IF held = {} THEN <<>>
    ELSE LET c == CHOOSE x \in held : \A y \in held : x <= y
         IN  <<Entry(KeyEvent(c, 0), "upAll"), Entry(SynEvent, "upAll")>>
                 \o Releases(held \ {c})

\* UDevice::upAll
UpAll(buf, held) == buf \o Releases(held)

\* the state of the device: buffer, tracker, events written, flush count
Dev(buf, held, wr, fl) == [buf |-> buf, held |-> held, wr |-> wr, fl |-> fl]

\* UDevice::flush
Flush(d) == Dev(<<>>, HeldAfterAll(d.held, d.buf), d.wr \o d.buf, d.fl + 1)

(***************************************************************************)
(* Initial state: the registry as initPassthrough() leaves it for the      *)
(* files found in the keys directory, every keyboard locked and active     *)
(* (the start of run()), both watcher threads idle.                        *)
(***************************************************************************)
FsEvent(path, mask, st_mode, st_uid) ==
    [path |-> path, mask |-> mask, st_mode |-> st_mode, st_uid |-> st_uid]
NoFsEvent == FsEvent("", {}, 0, "")

\* what a callback did: "unload", "rejected" (permissions), "no_path"
\* (realpath failed), "loading", "loaded", "csv_error"; had = the registry
\* held a source for the event's path when the callback began
Did(op, ev) ==
    [op |-> op, path |-> ev.path, mask |-> ev.mask,
     had |-> ev.path \in RelPaths /\ RealPath(ev.path) \in DOMAIN key_sources]

DirEntry(path, st_mode, st_uid, cells) ==
    [ev |-> FsEvent(path, {"IN_CREATE"}, st_mode, st_uid),
     content |-> CSVFile(cells)]

\* the keys directories the daemon is started on
InitDirs ==
    { <<>>,
      <<DirEntry("a.csv", S_IFREG + Mode0644, DaemonUid, <<<<"3", "0">>>>)>>,
      <<DirEntry("a.csv", S_IFREG + Mode0644, DaemonUid, <<<<"3", "0">>>>),
        DirEntry("b.csv", S_IFREG + Mode0644, DaemonUid,
                 <<<<"3", "0">>, <<"3", "1">>>>)>>,
      <<DirEntry("a.csv", S_IFREG + Mode0644, "user", <<<<"3", "0">>>>),
        DirEntry("b.csv", S_IFREG + Mode0644, DaemonUid, <<<<"3", "1">>>>)>> }

\* KBDDaemon::initPassthrough
RECURSIVE InitPassthrough(_, _, _)
InitPassthrough(ks, pk, files) ==
    IF files = <<>> THEN Registry(ks, pk)
    ELSE LET r == LoadPassthroughEv(ks, pk, Head(files).ev, TRUE,
                                    Head(files).content)
         IN  InitPassthrough(r.ks, r.pk, Tail(files))

EmptySources == [p \in {} |-> <<>>]
NoKbd == "nullptr"
NoAction == [done |-> 0, ev |-> NoEvent]
NoStat == [ret |-> 0, chr |-> FALSE, rw |-> FALSE, input |-> FALSE]

Init ==
    /\ \E dir \in InitDirs :
          LET r == InitPassthrough(EmptySources, {}, dir)
          IN  key_sources = r.ks /\ passthrough_keys = r.pk
    /\ mtx = [m \in {"available", "pulled", "passthrough"} |-> "none"]
    /\ w_pc = "idle" /\ w_ev = NoFsEvent /\ w_last = Did("none", NoFsEvent)
    /\ kstate = [k \in Kbds |-> "LOCKED"]
    /\ available_kbds = KbdOrder
    /\ pulled_kbds = <<>>
    /\ h_pc = "idle" /\ h_path = "" /\ h_it = 0 /\ h_wait = 0
    /\ h_st = NoStat
    /\ l_pc = "snap" /\ kbds = <<>> /\ kbd = NoKbd /\ action = NoAction
    /\ orig_ev = NoEvent /\ is_passthrough = FALSE /\ count = 0
    /\ evbuf = <<>> /\ held_keys = {}
    /\ in_ev = NoEvent /\ q_keys = {} /\ written = <<>> /\ flushes = 0
    /\ sent = <<>> /\ replies = <<>> /\ outcome = "none"
    /\ unlock_failed = {} /\ relock_failed = {}

Free(m) == mtx[m] = "none"
Lock(m, who) == [mtx EXCEPT ![m] = who]
Unlock(m) == [mtx EXCEPT ![m] = "none"]

(***************************************************************************)
(* Passthrough watcher thread: the callback given to keys_fsw.begin().     *)
(***************************************************************************)
\* The callback runs under passthrough_keys_mtx from its first line to its
\* return.  A callback that does a single thing to the registry is one step;
\* a load is two, unloadPassthrough(path) and then the install, with the
\* mutex held in between.
FsEvents ==
    {FsEvent(path, mask, st_mode, st_uid) :
        path \in RelPaths, mask \in Masks, st_mode \in FileModes,
        st_uid \in Uids}

\* faulty variant: DELETE_SELF is not looked at first
IsLoadMask_AnyModify(mask) == mask \cap {"IN_CREATE", "IN_MODIFY"} # {}

IsLoadMask(mask) ==
    "IN_DELETE_SELF" \notin mask /\ mask \cap {"IN_CREATE", "IN_MODIFY"} # {}

\* ev.mask & IN_DELETE_SELF: unloadPassthrough(ev.path)
FswUnload ==
    /\ w_pc = "idle"
    /\ Free("passthrough")
    /\ \E ev \in {e \in FsEvents : "IN_DELETE_SELF" \in e.mask} :
          /\ LET r == UnloadPassthrough(key_sources, passthrough_keys, ev.path)
             IN  key_sources' = r.ks /\ passthrough_keys' = r.pk
          /\ w_last' = Did("unload", ev)
    /\ UNCHANGED <<mtx, w_pc, w_ev, kbdVars, hotplugVars, loopVars, udevVars,
                   obsVars>>

\* ev.mask & (IN_CREATE | IN_MODIFY): loadPassthrough(&ev), which rejects
\* the file for its permissions or fails in realpath()
FswLoadRejected ==
    /\ w_pc = "idle"
    /\ Free("passthrough")
    /\ \E ev \in {e \in FsEvents : IsLoadMask(e.mask)}, resolved \in BOOLEAN :
          /\ ~PermOk(ev.st_mode, ev.st_uid) \/ ~resolved
          /\ LET r == LoadPassthroughEv(key_sources, passthrough_keys, ev,
                                        resolved, CSVError)
             IN  key_sources' = r.ks /\ passthrough_keys' = r.pk
          /\ w_last' = Did(IF PermOk(ev.st_mode, ev.st_uid)
                           THEN "no_path" ELSE "rejected", ev)
    /\ UNCHANGED <<mtx, w_pc, w_ev, kbdVars, hotplugVars, loopVars, udevVars,
                   obsVars>>

\* loadPassthrough(&ev) of an accepted file, up to and including
\* unloadPassthrough(path)
FswLoadUnload ==
    /\ w_pc = "idle"
    /\ Free("passthrough")
    /\ \E ev \in {e \in FsEvents : /\ IsLoadMask(e.mask)
                                    /\ PermOk(e.st_mode, e.st_uid)} :
          /\ w_ev' = ev
          /\ w_last' = Did("loading", ev)
          /\ LET r == UnloadPassthrough(key_sources, passthrough_keys,
                                        RealPath(ev.path))
             IN  key_sources' = r.ks /\ passthrough_keys' = r.pk
    /\ mtx' = Lock("passthrough", "keys_fsw")
    /\ w_pc' = "loading"
    /\ UNCHANGED <<kbdVars, hotplugVars, loopVars, udevVars, obsVars>>

\* the rest of loadPassthrough(ev.path): the CSV is read and installed, the
\* callback returns
FswLoadInstall ==
    /\ w_pc = "loading"
    /\ \E content \in FileContents :
          /\ LET r == InstallPassthrough(key_sources, passthrough_keys,
                                         RealPath(w_ev.path), content)
             IN  key_sources' = r.ks /\ passthrough_keys' = r.pk
          /\ w_last' = [w_last EXCEPT
                           !.op = IF content.ok THEN "loaded" ELSE "csv_error"]
    /\ mtx' = Unlock("passthrough")
    /\ w_pc' = "idle"
    /\ w_ev' = NoFsEvent
    /\ UNCHANGED <<kbdVars, hotplugVars, loopVars, udevVars, obsVars>>

\* an event with none of DELETE_SELF, CREATE, MODIFY: neither branch is
\* taken, return true
FswIgnore ==
    /\ w_pc = "idle"
    /\ Free("passthrough")
    /\ \E ev \in {e \in FsEvents : /\ "IN_DELETE_SELF" \notin e.mask
                                    /\ ~IsLoadMask(e.mask)} :
          w_last' = Did("ignored", ev)
    /\ UNCHANGED <<regVars, mtx, w_pc, w_ev, kbdVars, hotplugVars, loopVars,
                   udevVars, obsVars>>

KeysFsw ==
    \/ FswUnload \/ FswLoadRejected \/ FswLoadUnload \/ FswLoadInstall
    \/ FswIgnore

(***************************************************************************)
(* Keyboards (Keyboard): lock() and unlock() either succeed or throw       *)
(* KeyboardError; on a DISABLED keyboard (descriptor closed) they throw.   *)
(***************************************************************************)
\* the keyboards of a list for which a call may succeed
Usable(list) == {k \in Range(list) : kstate[k] # "DISABLED"}
\* the sets of keyboards of a list for which a call can throw
FailSets(list) ==
    {F \in SUBSET Range(list) : Range(list) \ Usable(list) \subseteq F}

\* a list without the first occurrence of k (std::find, then erase)
RECURSIVE EraseFirst(_, _)
EraseFirst(list, k) ==
    IF list = <<>> THEN <<>>
    ELSE IF Head(list) = k THEN Tail(list)
    ELSE <<Head(list)>> \o EraseFirst(Tail(list), k)

(***************************************************************************)
(* Event loop: the for (;;) of KBDDaemon::run.                             *)
(***************************************************************************)
ResetObs ==
    /\ in_ev' = NoEvent /\ q_keys' = {} /\ written' = <<>> /\ flushes' = 0
    /\ sent' = <<>> /\ replies' = <<>> /\ outcome' = "none"
    /\ unlock_failed' = {} /\ relock_failed' = {}

\* the synthetic device as the variables hold it
CurDev == Dev(evbuf, held_keys, written, flushes)
SetDev(d) ==
    /\ evbuf' = d.buf /\ held_keys' = d.held
    /\ written' = d.wr /\ flushes' = d.fl

\* faulty variant: action.done is not reset at the top of the loop
LoopSnapshot_KeepDone ==
    /\ l_pc = "snap"
    /\ Free("available")
    /\ kbds' = available_kbds
    /\ action' = [action EXCEPT !.ev = NoEvent]
    /\ orig_ev' = NoEvent /\ is_passthrough' = FALSE /\ count' = 0
    /\ l_pc' = "mux"
    /\ ResetObs
    /\ UNCHANGED <<regVars, mtx, watcherVars, kbdVars, hotplugVars, kbd,
                   udevVars>>

\* faulty variant: the snapshot is taken once, before the loop
LoopSnapshot_Stale ==
    /\ l_pc = "snap"
    /\ Free("available")
    /\ kbds' = IF kbds = <<>> THEN available_kbds ELSE kbds
    /\ action' = NoAction
    /\ orig_ev' = NoEvent /\ is_passthrough' = FALSE /\ count' = 0
    /\ l_pc' = "mux"
    /\ ResetObs
    /\ UNCHANGED <<regVars, mtx, watcherVars, kbdVars, hotplugVars, kbd,
                   udevVars>>

\* had_key = false, action.done = 0, and the snapshot of available_kbds
LoopSnapshot ==
    /\ l_pc = "snap"
    /\ Free("available")
    /\ kbds' = available_kbds
    /\ action' = NoAction
    /\ orig_ev' = NoEvent /\ is_passthrough' = FALSE /\ count' = 0
    /\ l_pc' = "mux"
    /\ ResetObs
    /\ UNCHANGED <<regVars, mtx, watcherVars, kbdVars, hotplugVars, kbd,
                   udevVars>>

\* kbdMultiplex() returns -1: continue
LoopTimeout ==
    /\ l_pc = "mux"
    /\ l_pc' = "snap"
    /\ outcome' = "timeout"
    /\ UNCHANGED <<regVars, mtx, watcherVars, kbdVars, hotplugVars, kbds, kbd,
                   action, orig_ev, is_passthrough, count, udevVars, in_ev,
                   q_keys, written, flushes, sent, replies, unlock_failed,
                   relock_failed>>

\* kbdMultiplex() returns idx, kbd->get() reads an event, the keyboard is
\* LOCKED: had_key = true
LoopReadLocked ==
    /\ l_pc = "mux"
    /\ \E idx \in 1..Len(kbds), ev \in InputEvents :
          /\ kstate[kbds[idx]] = "LOCKED"
          /\ kbd' = kbds[idx]
          /\ action' = [action EXCEPT !.ev = ev]
          /\ in_ev' = ev
    /\ l_pc' = "query"
    /\ UNCHANGED <<regVars, mtx, watcherVars, kbdVars, hotplugVars, kbds,
                   orig_ev, is_passthrough, count, udevVars, q_keys, written,
                   flushes, sent, replies, outcome, unlock_failed,
                   relock_failed>>

\* faulty variant: had_key is set for an OPEN keyboard too, the event it
\* gave goes on to the registry query
LoopReadOpen_Keep ==
    /\ l_pc = "mux"
    /\ \E idx \in 1..Len(kbds), ev \in InputEvents :
          /\ kstate[kbds[idx]] = "OPEN"
          /\ kbd' = kbds[idx]
          /\ action' = [action EXCEPT !.ev = ev]
          /\ in_ev' = ev
          /\ kstate' = [kstate EXCEPT ![kbds[idx]] = "LOCKED"]
    /\ l_pc' = "query"
    /\ outcome' = "discard"
    /\ UNCHANGED <<regVars, mtx, watcherVars, available_kbds, pulled_kbds,
                   hotplugVars, kbds, orig_ev, is_passthrough, count, udevVars,
                   q_keys, written, flushes, sent, replies, unlock_failed,
                   relock_failed>>

\* the keyboard read from is OPEN: kbd->lock() succeeds, the event is dropped
LoopReadOpen ==
    /\ l_pc = "mux"
    /\ \E idx \in 1..Len(kbds), ev \in InputEvents :
          /\ kstate[kbds[idx]] = "OPEN"
          /\ kbd' = kbds[idx]
          /\ action' = [action EXCEPT !.ev = ev]
          /\ in_ev' = ev
          /\ kstate' = [kstate EXCEPT ![kbds[idx]] = "LOCKED"]
    /\ l_pc' = "snap"
    /\ outcome' = "discard"
    /\ UNCHANGED <<regVars, mtx, watcherVars, available_kbds, pulled_kbds,
                   hotplugVars, kbds, orig_ev, is_passthrough, count, udevVars,
                   q_keys, written, flushes, sent, replies, unlock_failed,
                   relock_failed>>

\* the keyboard read from is OPEN and kbd->lock() throws KeyboardError
LoopReadOpenLockFail ==
    /\ l_pc = "mux"
    /\ \E idx \in 1..Len(kbds), ev \in InputEvents :
          /\ kstate[kbds[idx]] = "OPEN"
          /\ kbd' = kbds[idx]
          /\ action' = [action EXCEPT !.ev = ev]
          /\ in_ev' = ev
    /\ l_pc' = "kerr"
    /\ outcome' = "lock_error"
    /\ UNCHANGED <<regVars, mtx, watcherVars, kbdVars, hotplugVars, kbds,
                   orig_ev, is_passthrough, count, udevVars, q_keys, written,
                   flushes, sent, replies, unlock_failed, relock_failed>>

\* kbd->get() throws KeyboardError
LoopReadError ==
    /\ l_pc = "mux"
    /\ \E idx \in 1..Len(kbds) :
          /\ kstate[kbds[idx]] # "DISABLED"
          /\ kbd' = kbds[idx]
    /\ l_pc' = "kerr"
    /\ outcome' = "read_error"
    /\ UNCHANGED <<regVars, mtx, watcherVars, kbdVars, hotplugVars, kbds,
                   action, orig_ev, is_passthrough, count, udevVars, in_ev,
                   q_keys, written, flushes, sent, replies, unlock_failed,
                   relock_failed>>

\* catch (KeyboardError): kbd->disable()
LoopDisable ==
    /\ l_pc = "kerr"
    /\ kstate' = [kstate EXCEPT ![kbd] = "DISABLED"]
    /\ l_pc' = "kerr_erase"
    /\ UNCHANGED <<regVars, mtx, watcherVars, available_kbds, pulled_kbds,
                   hotplugVars, kbds, kbd, action, orig_ev, is_passthrough,
                   count, udevVars, obsVars>>

\* faulty variant: the keyboard is left in available_kbds
LoopErase_Skip ==
    /\ l_pc = "kerr_erase"
    /\ Free("available")
    /\ l_pc' = "kerr_push"
    /\ UNCHANGED <<regVars, mtx, watcherVars, kbdVars, hotplugVars, kbds, kbd,
                   action, orig_ev, is_passthrough, count, udevVars, obsVars>>

\* faulty variant: the braces around the first lock_guard are missing, so
\* available_kbds_mtx is still held when pulled_kbds_mtx is taken
LoopErase_Hold ==
    /\ l_pc = "kerr_erase"
    /\ Free("available")
    /\ kbd \in Range(available_kbds)
    /\ available_kbds' = EraseFirst(available_kbds, kbd)
    /\ mtx' = Lock("available", "loop")
    /\ l_pc' = "kerr_push"
    /\ UNCHANGED <<regVars, watcherVars, kstate, pulled_kbds,
                   hotplugVars, kbds, kbd, action, orig_ev, is_passthrough,
                   count, udevVars, obsVars>>

\* under available_kbds_mtx: find kbd in available_kbds and erase it.  The
\* keyboard is always found (it was read from the snapshot and only this
\* thread erases), so erase(end()) does not arise.
LoopErase ==
    /\ l_pc = "kerr_erase"
    /\ Free("available")
    /\ kbd \in Range(available_kbds)
    /\ available_kbds' = EraseFirst(available_kbds, kbd)
    /\ l_pc' = "kerr_push"
    /\ UNCHANGED <<regVars, mtx, watcherVars, kstate, pulled_kbds,
                   hotplugVars, kbds, kbd, action, orig_ev, is_passthrough,
                   count, udevVars, obsVars>>

\* under pulled_kbds_mtx: pulled_kbds.push_back(kbd); then continue
LoopPushPulled ==
    /\ l_pc = "kerr_push"
    /\ Free("pulled")
    /\ pulled_kbds' = Append(pulled_kbds, kbd)
    /\ l_pc' = "snap"
    /\ UNCHANGED <<regVars, mtx, watcherVars, kstate, available_kbds,
                   hotplugVars, kbds, kbd, action, orig_ev, is_passthrough,
                   count, udevVars, obsVars>>

\* faulty variant: every code is taken for a passthrough code
IsPassthrough_Always(code) == code \in Codes

\* faulty variant: the query is made without passthrough_keys_mtx
LoopQuery_NoMutex ==
    /\ l_pc = "query"
    /\ is_passthrough' = (action.ev.code \in passthrough_keys)
    /\ q_keys' = passthrough_keys
    /\ l_pc' = IF is_passthrough' THEN "send" ELSE "direct"
    /\ UNCHANGED <<regVars, mtx, watcherVars, kbdVars, hotplugVars, kbds, kbd,
                   action, orig_ev, count, udevVars, in_ev, written, flushes,
                   sent, replies, outcome, unlock_failed, relock_failed>>

\* under passthrough_keys_mtx: is_passthrough = passthrough_keys.count(code)
IsPassthrough(code) == code \in passthrough_keys

LoopQuery ==
    /\ l_pc = "query"
    /\ Free("passthrough")
    /\ is_passthrough' = IsPassthrough(action.ev.code)
    /\ q_keys' = passthrough_keys
    /\ l_pc' = IF is_passthrough' THEN "send" ELSE "direct"
    /\ UNCHANGED <<regVars, mtx, watcherVars, kbdVars, hotplugVars, kbds, kbd,
                   action, orig_ev, count, udevVars, in_ev, written, flushes,
                   sent, replies, outcome, unlock_failed, relock_failed>>

\* faulty variant: the direct emit is not flushed
DirectEmit_NoFlush(d, ev) == Dev(Emit(d.buf, ev, "direct"), d.held, d.wr, d.fl)

\* not a passthrough key: udev.emit(&action.ev); udev.flush()
DirectEmit(d, ev) == Flush(Dev(Emit(d.buf, ev, "direct"), d.held, d.wr, d.fl))

LoopDirect ==
    /\ l_pc = "direct"
    /\ SetDev(DirectEmit(CurDev, action.ev))
    /\ l_pc' = "snap"
    /\ outcome' = "direct"
    /\ UNCHANGED <<regVars, mtx, watcherVars, kbdVars, hotplugVars, kbds, kbd,
                   action, orig_ev, is_passthrough, count, in_ev, q_keys, sent,
                   replies, unlock_failed, relock_failed>>

\* orig_ev = action.ev; kbd_com.send(&action) succeeds
LoopSend ==
    /\ l_pc = "send"
    /\ orig_ev' = action.ev
    /\ sent' = Append(sent, action)
    /\ count' = 0
    /\ l_pc' = "recv"
    /\ UNCHANGED <<regVars, mtx, watcherVars, kbdVars, hotplugVars, kbds, kbd,
                   action, is_passthrough, udevVars, in_ev, q_keys, written,
                   flushes, replies, outcome, unlock_failed, relock_failed>>

\* orig_ev = action.ev; kbd_com.send(&action) throws SocketError
LoopSendError ==
    /\ l_pc = "send"
    /\ orig_ev' = action.ev
    /\ l_pc' = "recover"
    /\ UNCHANGED <<regVars, mtx, watcherVars, kbdVars, hotplugVars, kbds, kbd,
                   action, is_passthrough, count, udevVars, obsVars>>

\* kbd_com.recv() delivers a reply with done = 0: udev.emit(&action.ev)
LoopRecvReply ==
    /\ l_pc = "recv"
    /\ count < MaxReplies
    /\ \E ev \in ReplyEvents :
          /\ action' = [done |-> 0, ev |-> ev]
          /\ evbuf' = Emit(evbuf, ev, "reply")
          /\ replies' = Append(replies, ev)
    /\ count' = count + 1
    /\ UNCHANGED <<regVars, mtx, watcherVars, kbdVars, hotplugVars, l_pc, kbds,
                   kbd, orig_ev, is_passthrough, held_keys, in_ev, q_keys,
                   written, flushes, sent, outcome, unlock_failed,
                   relock_failed>>

\* faulty variant: the replies are left in the buffer
ExchangeDone_NoFlush(d, orig, n) == d

\* faulty variant: with no reply event the original event is emitted
ExchangeDone_EmitOrig(d, orig, n) ==
    IF n = 0
    THEN Flush(Dev(Emit(d.buf, orig, "orig"), d.held, d.wr, d.fl))
    ELSE Flush(d)

\* what the loop does once the reply with done = 1 arrived: udev.flush()
ExchangeDone(d, orig, n) == Flush(d)

\* kbd_com.recv() delivers done = 1: break, udev.flush(), continue
LoopRecvDone ==
    /\ l_pc = "recv"
    /\ action' = [done |-> 1, ev |-> NoEvent]
    /\ SetDev(ExchangeDone(CurDev, orig_ev, count))
    /\ l_pc' = "snap"
    /\ outcome' = "exchanged"
    /\ UNCHANGED <<regVars, mtx, watcherVars, kbdVars, hotplugVars, kbds, kbd,
                   orig_ev, is_passthrough, count, in_ev, q_keys, sent,
                   replies, unlock_failed, relock_failed>>

\* kbd_com.recv() throws SocketError
LoopRecvError ==
    /\ l_pc = "recv"
    /\ l_pc' = "recover"
    /\ UNCHANGED <<regVars, mtx, watcherVars, kbdVars, hotplugVars, kbds, kbd,
                   action, orig_ev, is_passthrough, count, udevVars, obsVars>>

\* faulty variant: a single upAll() and flush()
RecoverEmit_OneUpAll(d, orig, act) ==
    LET d1 == Dev(Emit(d.buf, orig, "orig"), d.held, d.wr, d.fl)
    IN  Flush(Dev(UpAll(d1.buf, d1.held), d1.held, d1.wr, d1.fl))

\* faulty variant: action.ev, which recv() has overwritten, is emitted in
\* place of orig_ev
RecoverEmit_Action(d, orig, act) ==
    LET d1 == Dev(Emit(d.buf, act, "orig"), d.held, d.wr, d.fl)
        d2 == Flush(Dev(UpAll(d1.buf, d1.held), d1.held, d1.wr, d1.fl))
    IN  Flush(Dev(UpAll(d2.buf, d2.held), d2.held, d2.wr, d2.fl))

\* faulty variant: the replies emitted before the error are dropped from the
\* buffer
RecoverEmit_DropReplies(d, orig, act) ==
    LET d1 == Dev(Emit(<<>>, orig, "orig"), d.held, d.wr, d.fl)
        d2 == Flush(Dev(UpAll(d1.buf, d1.held), d1.held, d1.wr, d1.fl))
    IN  Flush(Dev(UpAll(d2.buf, d2.held), d2.held, d2.wr, d2.fl))

\* catch (SocketError): udev.emit(&orig_ev); udev.upAll(); udev.flush();
\* udev.upAll(); udev.flush()
RecoverEmit(d, orig, act) ==
    LET d1 == Dev(Emit(d.buf, orig, "orig"), d.held, d.wr, d.fl)
        d2 == Flush(Dev(UpAll(d1.buf, d1.held), d1.held, d1.wr, d1.fl))
    IN  Flush(Dev(UpAll(d2.buf, d2.held), d2.held, d2.wr, d2.fl))

\* faulty variant: the handler takes pulled_kbds_mtx as well
LoopRecover_LockBoth ==
    /\ l_pc = "recover"
    /\ Free("available") /\ Free("pulled")
    /\ mtx' = [mtx EXCEPT !["available"] = "loop", !["pulled"] = "loop"]
    /\ SetDev(RecoverEmit(CurDev, orig_ev, action.ev))
    /\ l_pc' = "unlock"
    /\ UNCHANGED <<regVars, watcherVars, kbdVars, hotplugVars, kbds, kbd,
                   action, orig_ev, is_passthrough, count, in_ev, q_keys, sent,
                   replies, outcome, unlock_failed, relock_failed>>

\* faulty variant: the handler does not take available_kbds_mtx
LoopRecover_NoLock ==
    /\ l_pc = "recover"
    /\ SetDev(RecoverEmit(CurDev, orig_ev, action.ev))
    /\ l_pc' = "unlock"
    /\ UNCHANGED <<regVars, mtx, watcherVars, kbdVars, hotplugVars, kbds, kbd,
                   action, orig_ev, is_passthrough, count, in_ev, q_keys, sent,
                   replies, outcome, unlock_failed, relock_failed>>

\* the handler takes available_kbds_mtx and releases the keys
LoopRecover ==
    /\ l_pc = "recover"
    /\ Free("available")
    /\ mtx' = Lock("available", "loop")
    /\ SetDev(RecoverEmit(CurDev, orig_ev, action.ev))
    /\ l_pc' = "unlock"
    /\ UNCHANGED <<regVars, watcherVars, kbdVars, hotplugVars, kbds, kbd,
                   action, orig_ev, is_passthrough, count, in_ev, q_keys, sent,
                   replies, outcome, unlock_failed, relock_failed>>

\* faulty variant: a keyboard whose unlock throws is not disabled
UnlockedState_KeepOnFail(k, failed) ==
    IF k \in failed THEN kstate[k] ELSE "OPEN"

\* the state of keyboard k after the unlock loop: kbd->unlock(), and
\* kbd->disable() when it throws (failed = the keyboards whose unlock throws)
UnlockedState(k, failed) == IF k \in failed THEN "DISABLED" ELSE "OPEN"

\* for (auto& kbd : available_kbds) kbd->unlock()
LoopUnlockAll ==
    /\ l_pc = "unlock"
    /\ \E failed \in FailSets(available_kbds) :
          /\ kstate' = [k \in Kbds |->
                           IF k \in Range(available_kbds)
                           THEN UnlockedState(k, failed) ELSE kstate[k]]
          /\ unlock_failed' = failed
    /\ l_pc' = "recon"
    /\ UNCHANGED <<regVars, mtx, watcherVars, available_kbds, pulled_kbds,
                   hotplugVars, kbds, kbd, action, orig_ev, is_passthrough,
                   count, udevVars, in_ev, q_keys, written, flushes, sent,
                   replies, outcome, relock_failed>>

\* kbd_com.recon() returns
LoopRecon ==
    /\ l_pc = "recon"
    /\ l_pc' = "relock"
    /\ UNCHANGED <<regVars, mtx, watcherVars, kbdVars, hotplugVars, kbds, kbd,
                   action, orig_ev, is_passthrough, count, udevVars, obsVars>>

\* faulty variant: a keyboard whose lock throws is disabled
RelockedState_Disable(k, failed) ==
    IF k \in failed THEN "DISABLED" ELSE "LOCKED"

\* the state of keyboard k after the lock loop: kbd->lock(), and only a log
\* line when it throws (failed = the keyboards whose lock throws)
RelockedState(k, failed) == IF k \in failed THEN kstate[k] ELSE "LOCKED"

\* for (auto& kbd : available_kbds) kbd->lock(); the handler ends and
\* available_kbds_mtx is released; continue
LoopRelock ==
    /\ l_pc = "relock"
    /\ \E failed \in FailSets(available_kbds) :
          /\ kstate' = [k \in Kbds |->
                           IF k \in Range(available_kbds)
                           THEN RelockedState(k, failed) ELSE kstate[k]]
          /\ relock_failed' = failed
    /\ mtx' = Unlock("available")
    /\ l_pc' = "snap"
    /\ outcome' = "recovered"
    /\ UNCHANGED <<regVars, watcherVars, available_kbds, pulled_kbds,
                   hotplugVars, kbds, kbd, action, orig_ev, is_passthrough,
                   count, udevVars, in_ev, q_keys, written, flushes, sent,
                   replies, unlock_failed>>

EventLoop ==
    \/ LoopSnapshot \/ LoopTimeout \/ LoopReadLocked \/ LoopReadOpen
    \/ LoopReadOpenLockFail \/ LoopReadError \/ LoopDisable \/ LoopErase
    \/ LoopPushPulled \/ LoopQuery \/ LoopDirect \/ LoopSend \/ LoopSendError
    \/ LoopRecvReply \/ LoopRecvDone \/ LoopRecvError \/ LoopRecover
    \/ LoopUnlockAll \/ LoopRecon \/ LoopRelock

(***************************************************************************)
(* Hotplug watcher thread: the callback given to input_fsw.begin().  An    *)
(* event on "/dev/input" itself returns at once and changes nothing.       *)
(***************************************************************************)
\* the nodes that appear under /dev/input and the keyboard each one is
NodeKbd ==
    [n \in {"/dev/input/event1", "/dev/input/event2", "/dev/input/mouse0"} |->
        IF n = "/dev/input/event1" THEN "kbd1"
        ELSE IF n = "/dev/input/event2" THEN "kbd2" ELSE "mouse"]
Nodes == DOMAIN NodeKbd

\* Keyboard::isMe
IsMe(k, path) == NodeKbd[path] = k

\* what stat() reports of the node: ret, S_ISCHR, group read and write,
\* st_gid == input_gid; with ret = -1 stbuf holds nothing the code uses
StatResults ==
    {[ret |-> 0 - 1, chr |-> FALSE, rw |-> FALSE, input |-> FALSE]} \cup
    [ret : {0}, chr : BOOLEAN, rw : BOOLEAN, input : BOOLEAN]

\* an event arrives and the callback takes pulled_kbds_mtx; it = begin()
HotplugLock ==
    /\ h_pc = "idle"
    /\ Free("pulled")
    /\ mtx' = Lock("pulled", "input_fsw")
    /\ \E path \in Nodes : h_path' = path
    /\ h_it' = 1
    /\ h_pc' = "for"
    /\ UNCHANGED <<regVars, watcherVars, kbdVars, h_wait, h_st, loopVars,
                   udevVars, obsVars>>

\* return true: the lock_guard releases pulled_kbds_mtx
HotplugReturn ==
    /\ mtx' = Unlock("pulled")
    /\ h_pc' = "idle" /\ h_path' = "" /\ h_it' = 0 /\ h_wait' = 0
    /\ h_st' = NoStat

\* it == pulled_kbds.end()
HotplugForEnd ==
    /\ h_pc = "for"
    /\ h_it > Len(pulled_kbds)
    /\ HotplugReturn
    /\ UNCHANGED <<regVars, watcherVars, kbdVars, loopVars, udevVars, obsVars>>

\* the next pending keyboard: wait_time = 0
HotplugForNext ==
    /\ h_pc = "for"
    /\ h_it <= Len(pulled_kbds)
    /\ h_wait' = 0
    /\ h_pc' = "poll"
    /\ UNCHANGED <<regVars, mtx, watcherVars, kbdVars, h_path, h_it, h_st,
                   loopVars, udevVars, obsVars>>

\* the poll goes on: while (ret != -1 && !(4 & grp_perm && grp_perm & 2)
\*                          && stbuf.st_gid != input_gid)
PollAgain(st) == st.ret # 0 - 1 /\ ~st.rw /\ ~st.input

\* do { usleep; stat; ... }: stat() succeeds on something that is not a
\* character device: return
HotplugPollNotChr ==
    /\ h_pc = "poll"
    /\ \E st \in StatResults : st.ret # 0 - 1 /\ ~st.chr
    /\ HotplugReturn
    /\ UNCHANGED <<regVars, watcherVars, kbdVars, loopVars, udevVars, obsVars>>

\* (wait_time += wait_inc_us) > FSW_MAX_WAIT_PERMISSIONS_US: return
HotplugPollTimeout ==
    /\ h_pc = "poll"
    /\ \E st \in StatResults : ~(st.ret # 0 - 1 /\ ~st.chr)
    /\ h_wait + wait_inc_us > MaxWaitUs
    /\ HotplugReturn
    /\ UNCHANGED <<regVars, watcherVars, kbdVars, loopVars, udevVars, obsVars>>

\* faulty variant: the test of wait_time against the limit is missing
HotplugPollAgain_NoLimit ==
    /\ h_pc = "poll"
    /\ \E st \in StatResults :
          /\ ~(st.ret # 0 - 1 /\ ~st.chr)
          /\ PollAgain(st)
    /\ h_wait' = h_wait + wait_inc_us
    /\ UNCHANGED <<regVars, mtx, watcherVars, kbdVars, h_pc, h_path, h_it,
                   h_st, loopVars, udevVars, obsVars>>

\* the loop condition holds: poll again
HotplugPollAgain ==
    /\ h_pc = "poll"
    /\ \E st \in StatResults :
          /\ ~(st.ret # 0 - 1 /\ ~st.chr)
          /\ PollAgain(st)
    /\ h_wait + wait_inc_us <= MaxWaitUs
    /\ h_wait' = h_wait + wait_inc_us
    /\ UNCHANGED <<regVars, mtx, watcherVars, kbdVars, h_pc, h_path, h_it,
                   h_st, loopVars, udevVars, obsVars>>

\* the loop condition fails: the poll is over
HotplugPollDone ==
    /\ h_pc = "poll"
    /\ \E st \in StatResults :
          /\ ~(st.ret # 0 - 1 /\ ~st.chr)
          /\ ~PollAgain(st)
          /\ h_st' = st
    /\ h_wait + wait_inc_us <= MaxWaitUs
    /\ h_wait' = h_wait + wait_inc_us
    /\ h_pc' = "match"
    /\ UNCHANGED <<regVars, mtx, watcherVars, kbdVars, h_path, h_it, loopVars,
                   udevVars, obsVars>>

\* !kbd->isMe(ev.path): it++
HotplugNoMatch ==
    /\ h_pc = "match"
    /\ ~IsMe(pulled_kbds[h_it], h_path)
    /\ h_it' = h_it + 1
    /\ h_pc' = "for"
    /\ UNCHANGED <<regVars, mtx, watcherVars, kbdVars, h_path, h_wait, h_st,
                   loopVars, udevVars, obsVars>>

\* kbd->isMe(ev.path): kbd->reset(ev.path); kbd->lock()
HotplugRegrab ==
    /\ h_pc = "match"
    /\ IsMe(pulled_kbds[h_it], h_path)
    /\ kstate' = [kstate EXCEPT ![pulled_kbds[h_it]] = "LOCKED"]
    /\ h_pc' = "push"
    /\ UNCHANGED <<regVars, mtx, watcherVars, available_kbds, pulled_kbds,
                   h_path, h_it, h_wait, h_st, loopVars, udevVars, obsVars>>

\* kbd->reset() or kbd->lock() throws: the exception leaves the callback,
\* the keyboard stays on the pending list, DISABLED (reset failed) or OPEN
HotplugRegrabFail ==
    /\ h_pc = "match"
    /\ IsMe(pulled_kbds[h_it], h_path)
    /\ \E st \in {"DISABLED", "OPEN"} :
          kstate' = [kstate EXCEPT ![pulled_kbds[h_it]] = st]
    /\ HotplugReturn
    /\ UNCHANGED <<regVars, watcherVars, available_kbds, pulled_kbds,
                   loopVars, udevVars, obsVars>>

\* under available_kbds_mtx: available_kbds.push_back(kbd)
HotplugPush ==
    /\ h_pc = "push"
    /\ Free("available")
    /\ mtx' = Lock("available", "input_fsw")
    /\ available_kbds' = Append(available_kbds, pulled_kbds[h_it])
    /\ h_pc' = "pushed"
    /\ UNCHANGED <<regVars, watcherVars, kstate, pulled_kbds, h_path, h_it,
                   h_wait, h_st, loopVars, udevVars, obsVars>>

\* a list without its i-th element (erase(it))
EraseAt(list, i) == [j \in 1..(Len(list) - 1) |->
                        IF j < i THEN list[j] ELSE list[j + 1]]

\* faulty variant: the keyboard is not erased from pulled_kbds
HotplugErase_Keep ==
    /\ h_pc = "pushed"
    /\ mtx' = [mtx EXCEPT !["available"] = "none", !["pulled"] = "none"]
    /\ h_pc' = "idle" /\ h_path' = "" /\ h_it' = 0 /\ h_wait' = 0
    /\ h_st' = NoStat
    /\ UNCHANGED <<regVars, watcherVars, kbdVars, loopVars, udevVars, obsVars>>

\* faulty variant: pulled_kbds.erase(pulled_kbds.begin())
HotplugErase_First ==
    /\ h_pc = "pushed"
    /\ pulled_kbds' = EraseAt(pulled_kbds, 1)
    /\ mtx' = [mtx EXCEPT !["available"] = "none", !["pulled"] = "none"]
    /\ h_pc' = "idle" /\ h_path' = "" /\ h_it' = 0 /\ h_wait' = 0
    /\ h_st' = NoStat
    /\ UNCHANGED <<regVars, watcherVars, kstate, available_kbds, loopVars,
                   udevVars, obsVars>>

\* available_kbds_mtx is released; pulled_kbds.erase(it); break; return true
HotplugErase ==
    /\ h_pc = "pushed"
    /\ pulled_kbds' = EraseAt(pulled_kbds, h_it)
    /\ mtx' = [mtx EXCEPT !["available"] = "none", !["pulled"] = "none"]
    /\ h_pc' = "idle" /\ h_path' = "" /\ h_it' = 0 /\ h_wait' = 0
    /\ h_st' = NoStat
    /\ UNCHANGED <<regVars, watcherVars, kstate, available_kbds, loopVars,
                   udevVars, obsVars>>

InputFsw ==
    \/ HotplugLock \/ HotplugForEnd \/ HotplugForNext \/ HotplugPollNotChr
    \/ HotplugPollTimeout \/ HotplugPollAgain \/ HotplugPollDone
    \/ HotplugNoMatch \/ HotplugRegrab \/ HotplugRegrabFail \/ HotplugPush
    \/ HotplugErase

(***************************************************************************)
(* Specifications.                                                         *)
(***************************************************************************)
\* the three threads together
Next == EventLoop \/ KeysFsw \/ InputFsw

\* the event loop and the hotplug thread, over every registry Init gives
KbdNext == EventLoop \/ InputFsw
Spec == Init /\ [][KbdNext]_vars

\* the passthrough watcher alone
KeysNext == KeysFsw
SpecKeys == Init /\ [][KeysNext]_vars

\* the passthrough watcher's unloads and accepted loads, and the event loop
\* on its paths without errors: read, registry query, direct emit or an
\* exchange without replies
GateNext ==
    \/ LoopSnapshot \/ LoopTimeout \/ LoopReadLocked \/ LoopQuery
    \/ LoopDirect \/ LoopSend \/ LoopRecvDone
    \/ FswUnload \/ FswLoadUnload \/ FswLoadInstall
SpecGate == Init /\ [][GateNext]_vars

\* the hotplug callback, which always takes its next step, and the event
\* loop's read-error path, which fills pulled_kbds
PollNext ==
    \/ InputFsw
    \/ LoopSnapshot \/ LoopTimeout \/ LoopReadError \/ LoopDisable
    \/ LoopErase \/ LoopPushPulled
FairPoll == Init /\ [][PollNext]_vars /\ WF_vars(InputFsw)

\* the three threads on every path that takes a mutex: the hotplug callback,
\* the watcher's accepted loads, and the event loop's snapshot, read-error
\* handler, registry query and socket-error handler (send() throws)
\* (the data is cut down to one reloaded file and one key, which does not
\* change which mutexes are taken)
LockReload ==
    FswLoadUnload /\ w_ev'.path = "a.csv" /\ w_ev'.mask = {"IN_MODIFY"}
LockRead == LoopReadLocked /\ in_ev' = KeyEvent(30, 1)
LockNext ==
    \/ InputFsw
    \/ LockReload \/ FswLoadInstall
    \/ LoopSnapshot \/ LockRead \/ LoopReadError \/ LoopDisable
    \/ LoopErase \/ LoopPushPulled \/ LoopQuery \/ LoopDirect
    \/ LoopSendError \/ LoopRecover \/ LoopUnlockAll \/ LoopRecon
    \/ LoopRelock
SpecLocks == Init /\ [][LockNext]_vars

\* the event loop alone, which always takes its next step
LoopNext == EventLoop
FairSpec == Init /\ [][LoopNext]_vars /\ WF_vars(LoopNext)

(***************************************************************************)
(* Properties.                                                             *)
(***************************************************************************)
Active == Range(available_kbds)
Pending == Range(pulled_kbds)
\* the iteration has queried the registry
Queried ==
    \/ l_pc \in {"direct", "send", "recv", "recover", "unlock", "recon",
                 "relock"}
    \/ l_pc = "snap" /\ outcome \in {"direct", "exchanged", "recovered"}
\* the socket-error handler has returned from kbd_com.recon()
Reconnected == l_pc = "relock" \/ (l_pc = "snap" /\ outcome = "recovered")
\* the socket-error handler has passed its last flush()
Released == l_pc \in {"unlock", "recon"} \/ Reconnected
\* the positions of the written events a call produced
WrittenBy(by) == {i \in 1..Len(written) : written[i].by = by}

\* C1: after every load or unload the merged set passthrough_keys is the
\* union of the code lists of the entries of key_sources (also between the
\* unload and the install of a reload).
C1_MergedIsUnion == passthrough_keys = SourcesUnion(key_sources)

\* a.csv is being reloaded, its old source has just been removed, and b.csv,
\* still loaded, lists code 30, which is still in the merged set
C1_Witness ==
    /\ w_pc = "loading" /\ w_last.had /\ RealPath(w_ev.path) = "a.csv"
    /\ "a.csv" \notin DOMAIN key_sources
    /\ "b.csv" \in DOMAIN key_sources
    /\ 30 \in Range(key_sources["b.csv"])
    /\ 30 \in passthrough_keys

\* C2: an event read from a LOCKED keyboard whose code was not in the merged
\* set at the query is emitted directly and flushed and nothing is sent to
\* the peer; whatever is sent to the peer had its code in the merged set at
\* the query.
C2_PassthroughGate ==
    /\ (Queried /\ in_ev.code \notin q_keys) =>
          /\ sent = <<>> /\ replies = <<>>
          /\ \/ l_pc = "direct"
             \/ /\ l_pc = "snap" /\ outcome = "direct"
                /\ written = <<Entry(in_ev, "direct")>>
                /\ flushes = 1 /\ evbuf = <<>>
    /\ sent # <<>> =>
          /\ Queried /\ in_ev.code \in q_keys
          /\ \A i \in 1..Len(sent) : sent[i].ev = in_ev

\* the registry holds {30}; the press of 31 went straight to the device
C2_Witness ==
    /\ l_pc = "snap" /\ outcome = "direct"
    /\ q_keys = {30} /\ in_ev = KeyEvent(31, 1)
    /\ written = <<Entry(KeyEvent(31, 1), "direct")>>
    /\ sent = <<>>

\* C3: when the exchange ends with done = 1, the device has been written
\* exactly the reply events, in the order received, with one flush, and the
\* original event was not emitted (zero replies: nothing is written).
C3_ExchangeReplaces ==
    (l_pc = "snap" /\ outcome = "exchanged") =>
        /\ Len(written) = Len(replies)
        /\ \A i \in 1..Len(written) : written[i] = Entry(replies[i], "reply")
        /\ flushes = 1
        /\ evbuf = <<>>
        /\ Len(sent) = 1

\* the press of 30 was replaced by the two reply events
C3_Witness ==
    /\ l_pc = "snap" /\ outcome = "exchanged"
    /\ in_ev = KeyEvent(30, 1)
    /\ replies = <<KeyEvent(31, 1), SynEvent>>
    /\ written = <<Entry(KeyEvent(31, 1), "reply"), Entry(SynEvent, "reply")>>

\* C4: once the socket-error handler has reconnected, the held-keys tracker
\* is empty and nothing is left in the buffer.
C4_HeldEmptyAfterRecovery ==
    Reconnected => held_keys = {} /\ evbuf = <<>>

\* the original event was the press of 30 while 31 was held
C4_Witness ==
    /\ l_pc = "snap" /\ outcome = "recovered"
    /\ orig_ev = KeyEvent(30, 1)
    /\ \E i \in WrittenBy("upAll") : written[i].ev = KeyEvent(31, 0)
    /\ \E i \in WrittenBy("upAll") : written[i].ev = KeyEvent(30, 0)

\* C5: after a socket error in send() or recv(), the original event has been
\* emitted exactly once and as it was read, it is not emitted by the direct
\* path, and it is not sent (again) to the peer.
C5_OriginalOnce ==
    Released =>
        /\ Cardinality(WrittenBy("orig")) = 1
        /\ \A i \in WrittenBy("orig") : written[i].ev = in_ev
        /\ WrittenBy("direct") = {}
        /\ Len(sent) <= 1
        /\ \A i \in 1..Len(sent) : sent[i].ev = in_ev
        /\ evbuf = <<>>

\* the socket failed in recv() after a reply event had arrived
C5_Witness ==
    /\ l_pc = "snap" /\ outcome = "recovered"
    /\ in_ev = KeyEvent(30, 1)
    /\ replies = <<KeyEvent(31, 1)>>
    /\ Len(sent) = 1

\* C6: while the loop is in kbd_com.recon(), no keyboard of the active list
\* is LOCKED.
C6_NoneLockedInRecon ==
    l_pc = "recon" => \A k \in Active : kstate[k] # "LOCKED"

\* the loop is in recon() with an active keyboard while the hotplug thread
\* has locked a pending keyboard and waits for available_kbds_mtx
C6_Witness ==
    /\ l_pc = "recon" /\ Active # {}
    /\ h_pc = "push" /\ kstate[pulled_kbds[h_it]] = "LOCKED"
    /\ \E k \in Active : k \in unlock_failed

\* C7 as claimed: after recovery every active keyboard is LOCKED, or
\* DISABLED when its re-lock failed.
C7_RelockFailDisables ==
    (l_pc = "snap" /\ outcome = "recovered") =>
        \A k \in Active :
            IF k \in relock_failed
            THEN kstate[k] = "DISABLED" ELSE kstate[k] = "LOCKED"

\* C7 amended: after recovery every active keyboard whose re-lock succeeded
\* is LOCKED, and one whose re-lock failed is in the state the unlock loop
\* left it in: OPEN, or DISABLED when its unlock had failed too.
C7_RelockFailKeepsState ==
    (l_pc = "snap" /\ outcome = "recovered") =>
        \A k \in Active :
            IF k \in relock_failed
            THEN kstate[k] = IF k \in unlock_failed THEN "DISABLED" ELSE "OPEN"
            ELSE kstate[k] = "LOCKED"

\* one active keyboard was re-locked, the re-lock of another failed
C7_Witness ==
    /\ l_pc = "snap" /\ outcome = "recovered"
    /\ \E k \in Active : k \in relock_failed /\ kstate[k] = "OPEN"
    /\ \E k \in Active : k \notin relock_failed /\ kstate[k] = "LOCKED"

\* C8: the handler of a keyboard error ends with the keyboard DISABLED, out
\* of the active list and appended to the pending list, and the iteration
\* has emitted, flushed and sent nothing.
C8_ReadErrorToPending ==
    [][(l_pc = "kerr_push" /\ l_pc' = "snap") =>
          /\ kstate'[kbd] = "DISABLED"
          /\ kbd \notin Range(available_kbds')
          /\ pulled_kbds' = Append(pulled_kbds, kbd)
          /\ written' = <<>> /\ sent' = <<>> /\ flushes' = 0
          /\ evbuf' = evbuf]_vars

\* a read of one of two active keyboards failed; the other stays active
C8_Witness ==
    /\ l_pc = "snap" /\ outcome = "read_error"
    /\ kstate[kbd] = "DISABLED"
    /\ kbd \notin Active /\ kbd \in Pending
    /\ Active # {}

\* C9: a DISABLED keyboard is eventually on the pending list.
C9_DisabledEventuallyPending ==
    \A k \in Kbds : (kstate[k] = "DISABLED") ~> (k \in Pending)

\* C10: after a load rejected for the file's permissions the registry has
\* no source for that path.
C10_RejectedLoadUnloads ==
    w_last.op = "rejected" =>
        /\ RealPath(w_last.path) \notin DOMAIN key_sources
        /\ passthrough_keys = SourcesUnion(key_sources)


\* the three mutexes and the threads that take them
Mutexes == {"available", "pulled", "passthrough"}
Threads == {"loop", "keys_fsw", "input_fsw"}
\* the mutexes thread t holds
Held(t) == {m \in Mutexes : mtx[m] = t}
\* thread t takes mutex m in this step and keeps it
Acquires(t, m) == mtx[m] # t /\ mtx'[m] = t
\* the documented order: active, then pending, then passthrough
LockOrder == <<"available", "pulled", "passthrough">>
Rank(m) == CHOOSE i \in DOMAIN LockOrder : LockOrder[i] = m
\* where the event loop takes a mutex inside one step, and which
LoopNeeds ==
    CASE l_pc \in {"snap", "kerr_erase", "recover"} -> {"available"}
      [] l_pc = "kerr_push" -> {"pulled"}
      [] l_pc = "query" -> {"passthrough"}
      [] OTHER -> {}

\* C12 (as stated): a thread that holds several mutexes took them in the
\* order active, pending, passthrough; in particular no thread takes the
\* active-keyboards mutex while it holds the pending-replug mutex.
C12_DocumentedOrder ==
    [][\A t \in Threads, m \in Mutexes :
          Acquires(t, m) => \A m2 \in Held(t) : Rank(m2) < Rank(m)]_vars

\* C12 (amended): the only nesting is the hotplug callback's, which takes the
\* active-keyboards mutex while holding the pending-replug mutex (pending,
\* then active); the event loop takes each of its mutexes while holding
\* none, so no thread takes pending while holding active.
C12_OnlyHotplugNests ==
    [][/\ \A t \in Threads, m \in Mutexes :
             Acquires(t, m) =>
                \/ Held(t) = {}
                \/ t = "input_fsw" /\ m = "available" /\ Held(t) = {"pulled"}
       /\ LoopNeeds' # {} => Held("loop")' = {}]_vars

C12_Witness ==
    /\ h_pc = "pushed" /\ Held("input_fsw") = {"available", "pulled"}
    /\ l_pc = "kerr_erase" /\ Held("loop") = {}

\* the positions at which a thread is in, or about to make, a blocking call:
\* multiplex wait, read and lock ("mux"), flush ("direct", "recover"),
\* socket send, recv and reconnect, keyboard unlock and lock; the permission
\* poll and reset/lock of the hotplug callback
LoopBlocking == {"mux", "direct", "send", "recv", "recover", "unlock",
                 "recon", "relock"}
HotplugBlocking == {"poll", "match"}

\* C13: no thread holds two of the three mutexes while it makes a blocking
\* call; the flush of the socket-error handler is made with the one mutex the
\* handler takes.
C13_OneLockWhileBlocking ==
    /\ l_pc \in LoopBlocking => Cardinality(Held("loop")) <= 1
    /\ l_pc = "recover" => Held("loop") = {}
    /\ h_pc \in HotplugBlocking => Cardinality(Held("input_fsw")) <= 1
    /\ w_pc = "loading" => Cardinality(Held("keys_fsw")) <= 1

C13_Witness ==
    /\ l_pc = "recon" /\ Held("loop") = {"available"}
    /\ h_pc = "poll" /\ Held("input_fsw") = {"pulled"}

\* C14: while the hotplug callback polls for the permissions of a node, the
\* event loop never stands at a mutex the callback holds.
C14_PollIsolated ==
    h_pc = "poll" => \A m \in LoopNeeds : mtx[m] # "input_fsw"

\* C15: the callback goes on to match, reset and lock only after a stat()
\* that succeeded and showed a character device with group read and write
\* and group input.
C15_MatchAfterReadyNode ==
    h_pc \in {"match", "push", "pushed"} =>
        h_st.ret = 0 /\ h_st.chr /\ h_st.rw /\ h_st.input

C17_NotLockedDiscarded ==
    [][(l_pc = "mux" /\ in_ev' # NoEvent /\ kstate[kbd'] # "LOCKED") =>
          /\ l_pc' \in {"snap", "kerr"}
          /\ written' = <<>> /\ sent' = <<>> /\ flushes' = 0
          /\ evbuf' = evbuf
          /\ l_pc' = "snap" => kstate'[kbd'] = "LOCKED"]_vars

C17_Witness ==
    /\ l_pc = "snap" /\ outcome = "discard"
    /\ in_ev = KeyEvent(30, 1) /\ kbd = "kbd1"
    /\ kstate["kbd1"] = "LOCKED"
    /\ written = <<>> /\ sent = <<>>

\* C20: a lock() that fails on an OPEN keyboard in the event loop leaves the
\* keyboard as it was: OPEN, in the active set, not on the pending list.
C20_LockFailUntouched ==
    outcome = "lock_error" =>
        /\ kstate[kbd] = "OPEN"
        /\ kbd \in Active
        /\ kbd \notin Pending


\* the paths realpath() maps to themselves
CanonicalPaths == {p \in RelPaths : RealPath(p) = p}
\* load(p) with the given outcome of realpath() and file, then unload(p)
LoadThenUnload(p, resolved, content) ==
    LET l == LoadPassthrough(key_sources, passthrough_keys, p, resolved,
                             content)
    IN  UnloadPassthrough(l.ks, l.pk, p)
\* load(p) twice over the same file
LoadTwice(p, content) ==
    LET l == LoadPassthrough(key_sources, passthrough_keys, p, TRUE, content)
    IN  LoadPassthrough(l.ks, l.pk, p, TRUE, content)

\* C18 (as stated): for every registry state and every path p, load(p)
\* followed by unload(p) leaves the merged set as it was before the load.
C18_LoadUnloadNoOp ==
    \A p \in RelPaths, resolved \in BOOLEAN, content \in FileContents :
        LoadThenUnload(p, resolved, content).pk = passthrough_keys

\* C18 (amended): for a canonical path p, load(p) followed by unload(p)
\* leaves key_sources without an entry for p and the merged set equal to the
\* union of the other sources; this is the registry from before the load
\* exactly when p had no source then.
C18_LoadUnloadDropsSource ==
    \A p \in CanonicalPaths, resolved \in BOOLEAN, content \in FileContents :
        LET u == LoadThenUnload(p, resolved, content)
            rest == [q \in DOMAIN key_sources \ {p} |-> key_sources[q]]
        IN  /\ u.ks = rest
            /\ u.pk = SourcesUnion(rest)
            /\ p \notin DOMAIN key_sources =>
                  u = Registry(key_sources, passthrough_keys)

C18_Witness ==
    /\ w_last.op = "unload"
    /\ \E p \in CanonicalPaths \ DOMAIN key_sources,
          content \in FileContents :
          /\ LoadPassthrough(key_sources, passthrough_keys, p, TRUE,
                             content).pk # passthrough_keys
          /\ LoadThenUnload(p, TRUE, content).pk = passthrough_keys
    /\ \E p \in DOMAIN key_sources, content \in FileContents :
          LoadThenUnload(p, TRUE, content).pk # passthrough_keys

\* C19: loading an unchanged file twice leaves key_sources and the merged
\* set exactly as loading it once: one map entry for the path, holding one
\* copy of its codes.
C19_LoadIdempotent ==
    \A p \in RelPaths, content \in FileContents :
        LoadTwice(p, content) =
            LoadPassthrough(key_sources, passthrough_keys, p, TRUE, content)

C19_Witness ==
    /\ w_last.op = "loaded" /\ w_last.had
    /\ RealPath(w_last.path) \in DOMAIN key_sources
    /\ key_sources[RealPath(w_last.path)] # <<>>
    /\ \E content \in FileContents :
          /\ content.ok
          /\ CellCodes(content.cells) = key_sources[RealPath(w_last.path)]
          /\ LoadPassthrough(key_sources, passthrough_keys, w_last.path,
                             TRUE, content)
                = Registry(key_sources, passthrough_keys)


\* C11: the watcher's loads and unloads and the event loop's query exclude
\* each other under passthrough_keys_mtx: while a reload stands between its
\* unload and its install the watcher holds the mutex, and the query is made
\* only with no reload in progress, so it reads the merged set of a registry
\* in which every loaded file is installed whole.
C11_QueryExcludesReload ==
    [][/\ w_pc' = "loading" => mtx'["passthrough"] = "keys_fsw"
       /\ (l_pc = "query" /\ l_pc' # "query") =>
             /\ w_pc = "idle" /\ Free("passthrough")
             /\ q_keys' = passthrough_keys
             /\ q_keys' = SourcesUnion(key_sources)]_vars

C11_Witness ==
    /\ l_pc = "query" /\ in_ev = KeyEvent(30, 1)
    /\ w_pc = "loading" /\ mtx["passthrough"] = "keys_fsw"
    /\ w_last.had /\ 30 \notin passthrough_keys


\* C21: a load whose file cannot be parsed returns normally and leaves no
\* entry for the path and the merged set equal to the union of the sources
\* that remain.
C21_CsvErrorIgnored ==
    /\ w_last.op = "csv_error" =>
          /\ w_pc = "idle" /\ Free("passthrough")
          /\ RealPath(w_last.path) \notin DOMAIN key_sources
          /\ passthrough_keys = SourcesUnion(key_sources)
    /\ \A p \in RelPaths :
          LET r == LoadPassthrough(key_sources, passthrough_keys, p, TRUE,
                                   CSVError)
          IN  /\ r.ks = [q \in DOMAIN key_sources \ {RealPath(p)} |->
                            key_sources[q]]
              /\ r.pk = SourcesUnion(r.ks)

C21_Witness ==
    /\ w_last.op = "csv_error" /\ w_last.had
    /\ DOMAIN key_sources # {} /\ passthrough_keys # {}

\* the registry as one value
CurRegistry == Registry(key_sources, passthrough_keys)
NextRegistry == Registry(key_sources', passthrough_keys')

\* C24: the watcher callback unloads the path of an event that has
\* DELETE_SELF, whatever else the mask has; an event with CREATE or MODIFY
\* and no DELETE_SELF goes to the load, which passes the permission test
\* before it touches the registry; any other event changes nothing.
C24_Dispatch ==
    [][(w_pc = "idle" /\ w_last' # w_last) =>
          LET m == w_last'.mask
              p == w_last'.path
          IN  CASE "IN_DELETE_SELF" \in m ->
                     /\ w_last'.op = "unload"
                     /\ NextRegistry =
                           UnloadPassthrough(key_sources, passthrough_keys, p)
                [] "IN_DELETE_SELF" \notin m
                        /\ m \cap {"IN_CREATE", "IN_MODIFY"} # {} ->
                     /\ w_last'.op \in {"rejected", "no_path", "loading"}
                     /\ w_last'.op = "loading" =>
                           /\ PermOk(w_ev'.st_mode, w_ev'.st_uid)
                           /\ NextRegistry =
                                 UnloadPassthrough(key_sources,
                                                   passthrough_keys,
                                                   RealPath(p))
                     /\ w_last'.op # "loading" => NextRegistry = CurRegistry
                [] OTHER ->
                     /\ w_last'.op = "ignored"
                     /\ NextRegistry = CurRegistry]_vars

C24_Witness ==
    /\ w_last.op = "unload" /\ w_last.had
    /\ w_last.mask = {"IN_DELETE_SELF", "IN_MODIFY"}
    /\ w_last.path \notin DOMAIN key_sources


\* s is an initial part of t
IsPrefix(s, t) == Len(s) <= Len(t) /\ SubSeq(t, 1, Len(s)) = s

\* C22: when an event is read nothing produced for an earlier event is
\* still in the emitter buffer (all of it was written, in buffer order,
\* before the read), and within an iteration the device only receives more
\* events after the ones it has.
C22_ReadOrder ==
    [][/\ (in_ev' # in_ev /\ in_ev' # NoEvent) =>
             evbuf = <<>> /\ evbuf' = <<>> /\ written' = <<>>
       /\ (l_pc = "snap" /\ l_pc' = "mux") => evbuf = <<>>
       /\ ~(l_pc = "snap" /\ l_pc' = "mux") => IsPrefix(written, written')
       /\ flushes' # flushes => evbuf' = <<>>]_vars

C22_Witness ==
    /\ held_keys = {30} /\ 30 \notin passthrough_keys
    /\ l_pc = "snap" /\ outcome = "direct"
    /\ in_ev = KeyEvent(31, 0)
    /\ written = <<Entry(KeyEvent(31, 0), "direct")>>

\* C23: every message sent to the peer has done = 0 and carries the event
\* read in this iteration; at most one is sent per iteration, and exactly
\* one once send() has returned for a passthrough event.
C23_SentNotDone ==
    /\ Len(sent) <= 1
    /\ \A i \in 1..Len(sent) : sent[i] = [done |-> 0, ev |-> in_ev]
    /\ (l_pc = "recv" \/ (l_pc = "snap" /\ outcome = "exchanged")) =>
          Len(sent) = 1 /\ in_ev.code \in q_keys

C23_Witness ==
    /\ passthrough_keys = {30, 31} /\ held_keys # {}
    /\ l_pc = "recv"
    /\ sent = <<[done |-> 0, ev |-> KeyEvent(30, 1)]>>

\* C27: after a socket error that follows k >= 1 received replies the device
\* has been written those k replies in order, then the original event, then
\* only releases of upAll.
C27_PartialRepliesKept ==
    (Released /\ Len(replies) >= 1) =>
        LET k == Len(replies)
        IN  /\ Len(written) >= k + 1
            /\ \A i \in 1..k : written[i] = Entry(replies[i], "reply")
            /\ written[k + 1] = Entry(in_ev, "orig")
            /\ \A i \in (k + 2)..Len(written) : written[i].by = "upAll"

C27_Witness ==
    /\ l_pc = "snap" /\ outcome = "recovered"
    /\ replies = <<KeyEvent(31, 1), SynEvent>>
    /\ in_ev = KeyEvent(30, 1)
    /\ WrittenBy("upAll") # {}

\* C28: at the top of the loop the emitter buffer is empty, and an iteration
\* that emitted has flushed.
C28_BufferEmptyAtTop ==
    l_pc = "snap" =>
        /\ evbuf = <<>>
        /\ outcome \in {"direct", "exchanged", "recovered"} => flushes >= 1

C28_Witness ==
    /\ l_pc = "snap" /\ outcome = "exchanged"
    /\ Len(replies) = 2 /\ Len(written) = 2 /\ flushes = 1
    /\ evbuf = <<>>

\* no element occurs twice in the list
NoDup(list) ==
    \A i, j \in 1..Len(list) : list[i] = list[j] => i = j

\* C29: no keyboard is twice in available_kbds and none is twice in
\* pulled_kbds.
C29_NoDuplicates == NoDup(available_kbds) /\ NoDup(pulled_kbds)

C29_Witness ==
    /\ h_pc = "pushed"
    /\ pulled_kbds = <<"kbd1", "kbd2">> /\ available_kbds = <<"kbd1">>

\* the handle the hotplug callback is about to test, reset and lock
HotplugHandles == IF h_pc = "match" THEN {pulled_kbds[h_it]} ELSE {}
\* the handles the event loop is about to read, lock, unlock or disable
LoopHandles ==
    CASE l_pc = "mux" -> Range(kbds)
      [] l_pc = "kerr" -> {kbd}
      [] l_pc \in {"unlock", "relock"} -> Active
      [] OTHER -> {}

\* C30: the hotplug callback operates on handles that are on the pending
\* list and not on the active list, the event loop on handles of the active
\* list; no handle is under both at once.
C30_HandlesDisjoint ==
    /\ HotplugHandles \subseteq Pending \ Active
    /\ LoopHandles \subseteq Active
    /\ HotplugHandles \cap LoopHandles = {}

C30_Witness ==
    /\ h_pc = "match" /\ pulled_kbds[h_it] = "kbd1"
    /\ l_pc = "unlock" /\ Active = {"kbd2"}


\* the polls of the current keyboard that ended with "poll again"
PollsDone == h_wait \div wait_inc_us

\* C25: for each pending keyboard the callback polls at most
\* FSW_MAX_WAIT_PERMISSIONS_US / wait_inc_us + 1 times (the poll in progress
\* included) and always leaves the poll; when it leaves it by return, the
\* lists and every keyboard's state are as they were and pulled_kbds_mtx is
\* released.
C25_PollTerminates ==
    /\ [](h_pc = "poll" =>
             /\ h_wait = PollsDone * wait_inc_us
             /\ PollsDone + 1 <= MaxWaitUs \div wait_inc_us + 1)
    /\ [][(h_pc = "poll" /\ h_pc' = "idle") =>
             /\ pulled_kbds' = pulled_kbds
             /\ available_kbds' = available_kbds
             /\ kstate' = kstate
             /\ Free("pulled")']_vars
    /\ (h_pc = "poll") ~> (h_pc # "poll")

C25_Witness ==
    /\ h_pc = "poll" /\ pulled_kbds # <<>>
    /\ h_wait + wait_inc_us > MaxWaitUs


\* the mutex a thread must take to go on from where it stands
Needs(t) ==
    CASE t = "loop" -> LoopNeeds
      [] t = "input_fsw" ->
            (CASE h_pc = "idle" -> {"pulled"}
               [] h_pc = "push" -> {"available"}
               [] OTHER -> {})
      [] t = "keys_fsw" -> (IF w_pc = "idle" THEN {"passthrough"} ELSE {})
\* the threads that hold a mutex thread t must take
Holders(t) == {mtx[m] : m \in Needs(t)} \ {"none"}

\* C26: no thread waits for a mutex it holds itself, and a thread that holds
\* a mutex another thread waits for is itself not waiting for a mutex, so it
\* goes on to release it: no cycle of waiting threads exists on the three
\* mutexes.
C26_NoDeadlock ==
    \A t \in Threads :
        /\ t \notin Holders(t)
        /\ \A t2 \in Holders(t) : Holders(t2) = {}

C26_Witness ==
    /\ l_pc = "kerr_push" /\ h_pc = "push"
    /\ Holders("loop") = {"input_fsw"} /\ Holders("input_fsw") = {}
    /\ w_pc = "loading"


\* C31: from the unlock loop to the end of the lock loop of one recovery the
\* event loop holds available_kbds_mtx and available_kbds does not change,
\* so both loops run over the same keyboards; each of the two loops changes
\* the state of keyboards of that list only.
C31_SameSetRelocked ==
    [][(l_pc \in {"unlock", "recon", "relock"}) =>
          (/\ mtx["available"] = "loop"
           /\ available_kbds' = available_kbds
           /\ (l_pc' # l_pc) =>
                 (\A k \in Kbds \ Active : kstate'[k] = kstate[k])
           /\ (l_pc = "unlock" /\ l_pc' = "recon") =>
                 (\A k \in Active : kstate'[k] \in {"OPEN", "DISABLED"})
           /\ (l_pc = "relock" /\ l_pc' = "snap") =>
                 (\A k \in Active \ relock_failed' :
                     kstate'[k] = "LOCKED"))]_vars

C31_Witness ==
    /\ l_pc = "recon" /\ mtx["available"] = "loop"
    /\ h_pc = "push" /\ pulled_kbds[h_it] = "kbd1"
    /\ available_kbds = <<"kbd2">> /\ kstate["kbd2"] = "OPEN"

\* C32: unloadPassthrough(path) with a path that is not a key of key_sources
\* changes nothing, also when the path resolves to a key; the only entry an
\* unload removes is the one stored under the very string it is given.
C32_UnloadExactPath ==
    \A p \in RelPaths :
        LET u == UnloadPassthrough(key_sources, passthrough_keys, p)
        IN  /\ p \notin DOMAIN key_sources => u = CurRegistry
            /\ DOMAIN u.ks = DOMAIN key_sources \ {p}
            /\ \A q \in DOMAIN u.ks : u.ks[q] = key_sources[q]

C32_Witness ==
    /\ w_last.op = "unload" /\ w_last.path = "./a.csv" /\ w_last.had
    /\ "a.csv" \in DOMAIN key_sources
    /\ Range(key_sources["a.csv"]) \subseteq passthrough_keys
    /\ key_sources["a.csv"] # <<>>

====
